---- MODULE Spec2Model ----
(***************************************************************************)
(* Model of the gossdb client (src/ssdb.go, lines 1-1026): the wire codec  *)
(* (send / parse), the receive loop and the mutex-guarded, retrying        *)
(* request engine Client.Do with Reconnect and Close; the typed methods;   *)
(* the deadlines of one attempt; and the Cluster (lines 1528-1735).         *)
(*                                                                         *)
(* Bytes are one-character strings; a byte string is a sequence of them.   *)
(***************************************************************************)
EXTENDS Integers, Sequences, FiniteSets, TLC

\* ------------------------------------------------------------------------
\* Program constants
\* ------------------------------------------------------------------------
MAX_RETRIES == 3
TIMEOUT == 15           \* seconds

\* ------------------------------------------------------------------------
\* Bounds of the model
\* ------------------------------------------------------------------------
NumGoroutines == 2      \* goroutines sharing the one Client
MaxOps == 3             \* public operations (Do, Close, Reconnect) started in a run
MaxConns == 2           \* sockets ever dialed for the Client (Connect's included)
MaxMalformed == 1       \* malformed replies the server may send in a run
MaxArgs == 2            \* length of the argument lists of the codec runs
PartialRead == 4        \* size of a Read that returns less than all there is
MaxShards == 3          \* shards of the Cluster
MaxKeys == 3            \* keys given to one Cluster operation
MaxFields == 3          \* fields of the frame a typed method receives from Do
MaxTime == 20           \* seconds on the clock of a timed attempt
MaxChunks == 2          \* chunks in which the peer delivers one response
MaxList == 2            \* elements of the list argument of a typed method
MaxBytes == 7           \* bytes written to recv_buf in a run of parse on any bytes

LF == "\n"
CR == "\r"

\* ------------------------------------------------------------------------
\* Byte-string helpers
\* ------------------------------------------------------------------------
Digits == <<"0", "1", "2", "3", "4", "5", "6", "7", "8", "9">>

IsDigit(b) == \E i \in 1..10 : Digits[i] = b

DigitVal(b) == (CHOOSE i \in 1..10 : Digits[i] = b) - 1

\* buf[from:] of Go, from 0-based
Drop(buf, from) == SubSeq(buf, from + 1, Len(buf))

\* buf[from:to] of Go, 0-based, to exclusive
Slice(buf, from, to) == SubSeq(buf, from + 1, to)

RECURSIVE Concat(_)
Concat(ss) == IF ss = <<>> THEN <<>> ELSE Head(ss) \o Concat(Tail(ss))

\* bytes.IndexByte(buf, '\n'): 0-based index of the first LF, -1 when none
IndexByte(buf) ==
    IF \E i \in 1..Len(buf) : buf[i] = LF
    THEN (CHOOSE i \in 1..Len(buf) : buf[i] = LF /\ \A j \in 1..(i - 1) : buf[j] # LF) - 1
    ELSE -1

RECURSIVE ItoaNat(_)
ItoaNat(n) == IF n < 10 THEN <<Digits[n + 1]>>
              ELSE ItoaNat(n \div 10) \o <<Digits[(n % 10) + 1]>>

\* strconv.Itoa / fmt.Sprintf("%d", n)
Itoa(n) == IF n < 0 THEN <<"-">> \o ItoaNat(0 - n) ELSE ItoaNat(n)

RECURSIVE DigitsValue(_)
DigitsValue(s) == IF s = <<>> THEN 0
                  ELSE DigitsValue(SubSeq(s, 1, Len(s) - 1)) * 10 + DigitVal(s[Len(s)])

\* strconv.Atoi: optional sign, then one or more decimal digits
Atoi(s) ==
    LET signed == s # <<>> /\ s[1] \in {"+", "-"}
        body   == IF signed THEN Tail(s) ELSE s
    IN  IF body = <<>> \/ \E i \in 1..Len(body) : ~IsDigit(body[i])
        THEN [err |-> TRUE, val |-> 0]
        ELSE [err |-> FALSE,
              val |-> IF signed /\ s[1] = "-" THEN 0 - DigitsValue(body)
                      ELSE DigitsValue(body)]

\* fmt.Sprintf("%f", x) for the float whose value, rounded to six decimals,
\* is micros / 10^6
RECURSIVE PadLeft(_, _)
PadLeft(s, w) == IF Len(s) >= w THEN s ELSE PadLeft(<<"0">> \o s, w)

FormatF(micros) ==
    LET a == IF micros < 0 THEN 0 - micros ELSE micros
    IN  (IF micros < 0 THEN <<"-">> ELSE <<>>)
        \o ItoaNat(a \div 1000000) \o <<".">> \o PadLeft(ItoaNat(a % 1000000), 6)

\* ------------------------------------------------------------------------
\* Arguments of Do: the dynamic type of the interface{} value and its value
\* (s: text or raw bytes, l: list of texts, n: integer / boolean as 0,1 /
\*  float in millionths)
\* ------------------------------------------------------------------------
Arg(t, s, l, n) == [t |-> t, s |-> s, l |-> l, n |-> n]
StrArg(s)   == Arg("string", s, <<>>, 0)
BytesArg(s) == Arg("[]byte", s, <<>>, 0)
ListArg(l)  == Arg("[]string", <<>>, l, 0)
IntArg(n)   == Arg("int", <<>>, <<>>, n)
FloatArg(n) == Arg("float64", <<>>, <<>>, n)
BoolArg(b)  == Arg("bool", <<>>, <<>>, IF b THEN 1 ELSE 0)
NilArg      == Arg("nil", <<>>, <<>>, 0)
Int8Arg(n)  == Arg("int8", <<>>, <<>>, n)

SupportedTypes == {"string", "[]byte", "[]string", "int", "float64", "bool", "nil"}

\* the block <decimal length> LF <raw bytes> LF that send writes for a text
Block(s) == Itoa(Len(s)) \o <<LF>> \o s \o <<LF>>

\* the switch of send: the text s of a scalar argument
ArgText(a) ==
    CASE a.t = "string"  -> a.s
      [] a.t = "[]byte"  -> a.s
      [] a.t = "int"     -> Itoa(a.n)
      [] a.t = "float64" -> FormatF(a.n)
      [] a.t = "bool"    -> IF a.n = 1 THEN <<"1">> ELSE <<"0">>
      [] a.t = "nil"     -> <<>>
      [] OTHER           -> <<>>

\* a []string argument wrapped as one block instead of one block per element
ListBlocksWrapped(l) == Block(Concat(l))

\* case []string of send: one block per element, in order
RECURSIVE ListBlocks(_)
ListBlocks(l) == IF l = <<>> THEN <<>> ELSE Block(Head(l)) \o ListBlocks(Tail(l))

\* the loop of send over args, buf being the local bytes.Buffer: the request
\* bytes, or the "bad request" error of the default case (buf is dropped)
RECURSIVE EncodeFrom(_, _)
EncodeFrom(args, buf) ==
    IF args = <<>> THEN [err |-> FALSE, buf |-> buf \o <<LF>>]
    ELSE LET a == Head(args)
         IN  IF a.t \notin SupportedTypes THEN [err |-> TRUE, buf |-> <<>>]
             ELSE IF a.t = "[]string" THEN EncodeFrom(Tail(args), buf \o ListBlocks(a.l))
             ELSE EncodeFrom(Tail(args), buf \o Block(ArgText(a)))

Encode(args) == EncodeFrom(args, <<>>)

\* the texts send frames for an argument list, one per block
RECURSIVE EncodedTexts(_)
EncodedTexts(args) ==
    IF args = <<>> THEN <<>>
    ELSE LET a == Head(args)
         IN  (IF a.t = "[]string" THEN a.l ELSE <<ArgText(a)>>) \o EncodedTexts(Tail(args))

\* ------------------------------------------------------------------------
\* parse: the value it returns (isnil: the nil slice; resp: the list) and
\* the receive buffer it leaves
\* ------------------------------------------------------------------------
ParseResult(isnil, resp, buf) == [isnil |-> isnil, resp |-> resp, buf |-> buf]

\* an incomplete scan that throws away the empty lines it skipped
IncompleteSkippingEmpty(buf, offset) ==
    ParseResult(FALSE, <<>>, IF buf # <<>> /\ buf[1] = LF THEN Tail(buf) ELSE buf)

\* an incomplete scan that throws the scanned bytes away
IncompleteConsuming(buf, offset) == ParseResult(FALSE, <<>>, Drop(buf, offset))

\* return []string{} : no complete frame yet, recv_buf untouched
Incomplete(buf, offset) == ParseResult(FALSE, <<>>, buf)

\* return nil : malformed length prefix, recv_buf untouched
Malformed(buf) == ParseResult(TRUE, <<>>, buf)

\* a frame whose terminating line feed stays in recv_buf
FrameKeepingTerminator(buf, offset, resp) == ParseResult(FALSE, resp, Drop(buf, offset - 1))

\* c.recv_buf.Next(offset); return resp
Frame(buf, offset, resp) == ParseResult(FALSE, resp, Drop(buf, offset))

\* a field that swallows the LF that follows it
FieldAtPlusOne(buf, offset, size) == Slice(buf, offset, offset + size + 1)

\* v := buf[offset : offset+size]
FieldAt(buf, offset, size) == Slice(buf, offset, offset + size)

\* the for loop of parse, entered with the current offset and resp
RECURSIVE ParseFrom(_, _, _)
ParseFrom(buf, offset, resp) ==
    LET idx == IndexByte(Drop(buf, offset))
    IN  IF idx = -1 THEN Incomplete(buf, offset)
        ELSE LET p    == Slice(buf, offset, offset + idx)
                 off1 == offset + idx + 1
             IN  IF Len(p) = 0 \/ (Len(p) = 1 /\ p[1] = CR)
                 THEN IF Len(resp) = 0 THEN ParseFrom(buf, off1, resp)
                      ELSE Frame(buf, off1, resp)
                 ELSE LET n == Atoi(p)
                      IN  IF n.err \/ n.val < 0 THEN Malformed(buf)
                          ELSE IF off1 + n.val >= Len(buf) THEN Incomplete(buf, off1)
                          ELSE ParseFrom(buf, off1 + n.val + 1,
                                         Append(resp, FieldAt(buf, off1, n.val)))

Parse(buf) == ParseFrom(buf, 0, <<>>)

IsFrame(r) == ~r.isnil /\ Len(r.resp) > 0

\* ------------------------------------------------------------------------
\* State
\* ------------------------------------------------------------------------
VARIABLES
    sock,        \* c.sock: the connection the Client currently holds
    recv_buf,    \* c.recv_buf
    mutex,       \* c.mutex: 0 when unlocked, else the goroutine that locked it
    connOpen,    \* per connection: not yet closed by the client
    wire,        \* per connection: the requests written to it, in order
    answered,    \* per connection: how many of them the server has answered
    inbox,       \* per connection: bytes sent by the server, not yet read
    nextConn,    \* number of the next connection DialTCP opens
    pc,          \* per goroutine: where it is in Do
    args,        \* per goroutine: the args of its Do
    retries,     \* per goroutine: the retries of its innermost Do frame
    depth,       \* per goroutine: number of Do frames below the innermost one
    result,      \* per goroutine: what its Do returns
    hist,        \* per goroutine: what its current top-level call has done
    userClosed,  \* Close has returned, and no Reconnect was called since
    ops,         \* public operations started
    malformed,   \* malformed replies sent by the server
    fatal,       \* the runtime stopped the program (unlock of unlocked mutex)
    cArgs,       \* codec run: the argument list
    cPhase,      \* codec run: "send", "feed" or "done"
    cErr,        \* codec run: the error send returned
    cWire,       \* codec run: the bytes send wrote
    pending,     \* codec run: bytes the echoing peer has still to deliver
    frames,      \* codec run: the frames parse returned, in order
    sawNil,      \* codec run: parse returned nil at least once
    cuts,        \* codec run: kinds of places where a chunk ended
    nShards,     \* cluster: len(c.shards)
    cop,         \* cluster: the operation called
    kIn,         \* cluster: the keys it was called with
    cpc,         \* cluster: where the caller is in the operation
    parts,       \* cluster: the map locateKeys / locatePairs returned
    wpc,         \* cluster, per shard: where its worker goroutine is
    wmsg,        \* cluster, per shard: what its worker is about to send
    ch,          \* cluster: the buffered channel
    got,         \* cluster: messages received by the caller
    acc,         \* cluster: the accumulated result (ps, ks or res)
    errVar,      \* cluster: the named result err, shared with the workers
    errWriters,  \* cluster: the workers that have assigned err
    loc,         \* cluster: what locate returned to a single-key operation
    shClosed,    \* cluster, per shard: its connection has been closed
    ci,          \* cluster: index of the loop of Close over c.shards
    tMethod,     \* typed call: the method called
    tResp,       \* typed call: the frame Do returned to it
    tList,       \* typed call: the list argument (keys, fields or elements)
    tSent,       \* typed call: the arguments it gave to Do, if it called Do
    tErr,        \* typed call: the error Do returned to it
    tOut,        \* typed call: what the method returned, or its panic
    tpc,         \* typed call: "call" or "done"
    now,         \* timed attempt: the clock, in seconds
    dpc,         \* timed attempt: where send / recv is
    wDeadline,   \* timed attempt: the write deadline of the socket
    rDeadline,   \* timed attempt: the read deadline of the socket
    ioStart,     \* timed attempt: when the current Write or Read was called
    dTotal,      \* timed attempt: chunks the response is made of
    dSent,       \* timed attempt: chunks the peer has sent
    dRead,       \* timed attempt: chunks recv has read
    dErr,        \* timed attempt: the error send or recv returned
    pIn,         \* parse run: recv_buf as the last parse found it
    pRes,        \* parse run: what the last parse returned
    pWritten     \* parse run: bytes written to recv_buf so far

clientVars == <<sock, recv_buf, mutex, connOpen, wire, answered, inbox, nextConn,
                pc, args, retries, depth, result, hist, userClosed, ops,
                malformed, fatal>>
codecVars  == <<cArgs, cPhase, cErr, cWire, pending, frames, sawNil, cuts>>
clusterVars == <<nShards, cop, kIn, cpc, parts, wpc, wmsg, ch, got, acc, errVar,
                 errWriters, loc, shClosed, ci>>
typedVars  == <<tMethod, tList, tSent, tResp, tErr, tOut, tpc>>
timedVars  == <<now, dpc, wDeadline, rDeadline, ioStart, dTotal, dSent, dRead, dErr>>
parseVars  == <<pIn, pRes, pWritten>>
extVars    == <<clusterVars, typedVars, timedVars, parseVars>>
vars       == <<clientVars, codecVars, extVars>>

Goroutines == 1..NumGoroutines
Conns      == 1..MaxConns

NoResult == [isnil |-> TRUE, resp |-> <<>>, err |-> "none"]
NoHist   == [afterClose |-> FALSE, sent |-> 0, dials |-> 0,
             reconnects |-> 0, nilSeen |-> FALSE]

\* the Client as Connect returns it: one open socket, empty buffer, new mutex
ClientInit ==
    /\ sock = 1
    /\ recv_buf = <<>>
    /\ mutex = 0
    /\ connOpen = [c \in Conns |-> c = 1]
    /\ wire = [c \in Conns |-> <<>>]
    /\ answered = [c \in Conns |-> 0]
    /\ inbox = [c \in Conns |-> <<>>]
    /\ nextConn = 2
    /\ pc = [g \in Goroutines |-> "idle"]
    /\ args = [g \in Goroutines |-> <<>>]
    /\ retries = [g \in Goroutines |-> 0]
    /\ depth = [g \in Goroutines |-> 0]
    /\ result = [g \in Goroutines |-> NoResult]
    /\ hist = [g \in Goroutines |-> NoHist]
    /\ userClosed = FALSE
    /\ ops = 0
    /\ malformed = 0
    /\ fatal = FALSE

\* no Cluster operation is running
\* an error value is an interface of two words: its type and its data
NilErr == [typ |-> "nil", data |-> "nil"]

ClusterIdle ==
    /\ nShards = 1
    /\ cop = "none"
    /\ kIn = <<>>
    /\ cpc = "off"
    /\ parts = <<>>
    /\ wpc = <<>>
    /\ wmsg = <<>>
    /\ ch = <<>>
    /\ got = 0
    /\ acc = <<>>
    /\ errVar = NilErr
    /\ errWriters = {}
    /\ loc = 0
    /\ shClosed = <<>>
    /\ ci = 0

NoOut == [panic |-> FALSE, isnil |-> TRUE, val |-> <<>>, err |-> "none"]

TypedIdle ==
    /\ tMethod = "none"
    /\ tList = <<>>
    /\ tSent = <<>>
    /\ tResp = <<>>
    /\ tErr = "nil"
    /\ tOut = NoOut
    /\ tpc = "off"

TimedIdle ==
    /\ now = 0
    /\ dpc = "off"
    /\ wDeadline = 0
    /\ rDeadline = 0
    /\ ioStart = 0
    /\ dTotal = 0
    /\ dSent = 0
    /\ dRead = 0
    /\ dErr = "none"

NoParse == [isnil |-> FALSE, resp |-> <<>>, called |-> FALSE]

ParseIdle ==
    /\ pIn = <<>>
    /\ pRes = NoParse
    /\ pWritten = 0

ExtIdle == ClusterIdle /\ TypedIdle /\ TimedIdle /\ ParseIdle

\* ------------------------------------------------------------------------
\* Codec runs: send encodes an argument list, a peer echoes the bytes back in
\* chunks of any size, and parse runs on recv_buf after each chunk
\* ------------------------------------------------------------------------
Payload10 == <<"2", LF, "o", "k", LF, LF, CR, LF, "x", "9">>

SetA1 == <<StrArg(<<"s", "e", "t">>), StrArg(<<"a">>), StrArg(<<"1">>)>>

CodecArgValues ==
    { StrArg(<<"s", "e", "t">>), StrArg(<<"a">>), StrArg(<<>>), StrArg(Payload10),
      BytesArg(<<LF, LF>>), ListArg(<<<<"a">>, <<"b", LF>>>>), ListArg(<<>>),
      IntArg(0 - 12), FloatArg(1500000), BoolArg(TRUE), BoolArg(FALSE),
      NilArg, Int8Arg(7) }

CodecArgLists ==
    {SetA1} \cup UNION { [1..n -> CodecArgValues] : n \in 0..MaxArgs }

CodecIdle ==
    /\ cArgs = <<>>
    /\ cPhase = "off"
    /\ cErr = "none"
    /\ cWire = <<>>
    /\ pending = <<>>
    /\ frames = <<>>
    /\ sawNil = FALSE
    /\ cuts = {}

CodecInit ==
    /\ ClientInit
    /\ ExtIdle
    /\ cArgs \in CodecArgLists
    /\ cPhase = "send"
    /\ cErr = "none"
    /\ cWire = <<>>
    /\ pending = <<>>
    /\ frames = <<>>
    /\ sawNil = FALSE
    /\ cuts = {}

\* where the byte offset q falls in the blocks of texts that start at base:
\* inside a length prefix, inside a payload, or on a boundary
RECURSIVE CutKind(_, _, _)
CutKind(q, texts, base) ==
    IF texts = <<>> THEN "boundary"
    ELSE LET t    == Head(texts)
             plen == Len(Itoa(Len(t)))
             pay  == base + plen + 1
         IN  IF base < q /\ q < base + plen THEN "prefix"
             ELSE IF pay < q /\ q < pay + Len(t) THEN "payload"
             ELSE CutKind(q, Tail(texts), pay + Len(t) + 1)

\* send on a socket whose peer echoes: the request is built, written whole,
\* and comes back as the response
CodecSend ==
    /\ cPhase = "send"
    /\ LET e == Encode(cArgs)
       IN  IF e.err
           THEN /\ cErr' = "bad request"
                /\ cPhase' = "done"
                /\ UNCHANGED <<cWire, pending>>
           ELSE /\ cErr' = "nil"
                /\ cWire' = e.buf
                /\ pending' = e.buf
                /\ cPhase' = "feed"
    /\ UNCHANGED <<clientVars, cArgs, frames, sawNil, cuts, extVars>>

\* one turn of the loop of recv: Read returns the next n bytes,
\* c.recv_buf.Write appends them, parse runs
CodecFeed(n) ==
    /\ cPhase = "feed"
    /\ n \in 1..Len(pending)
    /\ LET r == Parse(recv_buf \o SubSeq(pending, 1, n))
           q == Len(cWire) - Len(pending) + n
       IN  /\ recv_buf' = r.buf
           /\ frames' = IF IsFrame(r) THEN Append(frames, r.resp) ELSE frames
           /\ sawNil' = (sawNil \/ r.isnil)
           /\ cuts' = cuts \cup {CutKind(q, EncodedTexts(cArgs), 0)}
    /\ pending' = Drop(pending, n)
    /\ cPhase' = IF Len(pending) = n THEN "done" ELSE "feed"
    /\ UNCHANGED <<sock, mutex, connOpen, wire, answered, inbox, nextConn,
                   pc, args, retries, depth, result, hist, userClosed, ops,
                   malformed, fatal>>
    /\ UNCHANGED <<cArgs, cErr, cWire, extVars>>

CodecNext == CodecSend \/ \E n \in 1..Len(pending) : CodecFeed(n)

CodecSpec == CodecInit /\ [][CodecNext]_vars

\* ------------------------------------------------------------------------
\* The Client shared by goroutines, and the server at the other end
\* ------------------------------------------------------------------------
GetA    == <<StrArg(<<"g", "e", "t">>), StrArg(<<"a">>)>>
GetB    == <<StrArg(<<"g", "e", "t">>), StrArg(<<"b">>)>>
BadCall == <<StrArg(<<"g", "e", "t">>), Int8Arg(7)>>

DoArgLists == {GetA, GetB, BadCall}
DoRetries  == {0, MAX_RETRIES}


\* status fields of a response
OK        == <<"o", "k">>
NOT_FOUND == <<"n", "o", "t", "_", "f", "o", "u", "n", "d">>
ERROR     == <<"e", "r", "r", "o", "r">>

\* the frame the server answers get k with: it stores the value a under the
\* key a and nothing under any other key
ReplyFrame(k) == IF k = <<"a">> THEN <<OK, k>> ELSE <<NOT_FOUND>>

\* the bytes of the reply to the request req
ReplyTo(req) ==
    LET f == ReplyFrame(Parse(req).resp[2])
    IN  Encode([i \in 1..Len(f) |-> StrArg(f[i])]).buf

\* a reply whose first length prefix is not a number
MalformedReply == <<"x", LF, LF>>

Failed(err) == [isnil |-> TRUE, resp |-> <<>>, err |-> err]

Init == ClientInit /\ CodecIdle /\ ExtIdle

\* Do is entered: Do(r, a...)
DoCall(g, a, r) ==
    /\ ~fatal
    /\ pc[g] = "idle"
    /\ ops < MaxOps
    /\ ops' = ops + 1
    /\ args' = [args EXCEPT ![g] = a]
    /\ retries' = [retries EXCEPT ![g] = r]
    /\ depth' = [depth EXCEPT ![g] = 0]
    /\ result' = [result EXCEPT ![g] = NoResult]
    /\ hist' = [hist EXCEPT ![g] = [NoHist EXCEPT !.afterClose = userClosed]]
    /\ pc' = [pc EXCEPT ![g] = "lock"]
    /\ UNCHANGED <<sock, recv_buf, mutex, connOpen, wire, answered, inbox,
                   nextConn, userClosed, malformed, fatal, codecVars, extVars>>

\* a lock that does not wait for the mutex to be free
LockUnguarded(g) ==
    /\ ~fatal
    /\ pc[g] = "lock"
    /\ mutex' = g
    /\ pc' = [pc EXCEPT ![g] = "send"]
    /\ UNCHANGED <<sock, recv_buf, connOpen, wire, answered, inbox, nextConn,
                   args, retries, depth, result, hist, userClosed, ops,
                   malformed, fatal, codecVars, extVars>>

\* c.lock() at the head of Do: sync.Mutex is not reentrant, the caller waits
\* until the mutex is unlocked, whoever locked it
DoLock(g) ==
    /\ ~fatal
    /\ pc[g] = "lock"
    /\ mutex = 0
    /\ mutex' = g
    /\ pc' = [pc EXCEPT ![g] = "send"]
    /\ UNCHANGED <<sock, recv_buf, connOpen, wire, answered, inbox, nextConn,
                   args, retries, depth, result, hist, userClosed, ops,
                   malformed, fatal, codecVars, extVars>>

\* a retry test that forgets the bad request case
SendRetryableAny(err, r) == r < MAX_RETRIES

\* the test of Do on the error of send
SendRetryable(err, r) == err # "bad request" /\ r < MAX_RETRIES

\* the test of Do on the error of recv
RecvRetryable(err, r) == err # "nil" /\ r < MAX_RETRIES

\* c.Close(): closes the socket the Client holds
CloseEffect == connOpen' = [connOpen EXCEPT ![sock] = FALSE]

\* c.Reconnect(): Close, then DialTCP; only when the dial succeeds is the
\* socket replaced and the receive buffer reset
ReconnectEffect(dialOk) ==
    IF dialOk /\ nextConn <= MaxConns
    THEN /\ connOpen' = [connOpen EXCEPT ![sock] = FALSE, ![nextConn] = TRUE]
         /\ sock' = nextConn
         /\ nextConn' = nextConn + 1
         /\ recv_buf' = <<>>
    ELSE /\ CloseEffect
         /\ UNCHANGED <<sock, nextConn, recv_buf>>

\* err := c.send(args) and the branch of Do on it
DoSend(g, ioOk) ==
    /\ ~fatal
    /\ pc[g] = "send"
    /\ LET e   == Encode(args[g])
           err == IF e.err THEN "bad request"
                  ELSE IF ~connOpen[sock] THEN "use of closed network connection"
                  ELSE IF ioOk THEN "nil" ELSE "write: connection reset"
       IN  IF err = "nil"
           THEN /\ wire' = [wire EXCEPT ![sock] = Append(@, e.buf)]
                /\ hist' = [hist EXCEPT ![g].sent = @ + 1]
                /\ pc' = [pc EXCEPT ![g] = "recv"]
                /\ UNCHANGED <<retries, result>>
           ELSE IF SendRetryable(err, retries[g])
           THEN /\ retries' = [retries EXCEPT ![g] = @ + 1]
                /\ pc' = [pc EXCEPT ![g] = "reconnect"]
                /\ UNCHANGED <<wire, hist, result>>
           ELSE /\ result' = [result EXCEPT ![g] = Failed(err)]
                /\ pc' = [pc EXCEPT ![g] = "ret"]
                /\ UNCHANGED <<wire, hist, retries>>
    /\ UNCHANGED <<sock, recv_buf, mutex, connOpen, answered, inbox, nextConn,
                   args, depth, userClosed, ops, malformed, fatal, codecVars, extVars>>

\* a recv whose caller retries on a frame with a status other than ok
DoRecvRetryingStatus(g, n) ==
    /\ ~fatal
    /\ pc[g] = "recv"
    /\ IF n = 0
       THEN LET err == IF connOpen[sock] THEN "read: i/o timeout"
                       ELSE "use of closed network connection"
            IN  /\ IF RecvRetryable(err, retries[g])
                   THEN /\ retries' = [retries EXCEPT ![g] = @ + 1]
                        /\ pc' = [pc EXCEPT ![g] = "reconnect"]
                        /\ UNCHANGED result
                   ELSE /\ result' = [result EXCEPT ![g] = Failed(err)]
                        /\ pc' = [pc EXCEPT ![g] = "ret"]
                        /\ UNCHANGED retries
                /\ UNCHANGED <<recv_buf, inbox, hist>>
       ELSE /\ connOpen[sock]
            /\ n <= Len(inbox[sock])
            /\ n = Len(inbox[sock]) \/ n = PartialRead
            /\ LET r == Parse(recv_buf \o SubSeq(inbox[sock], 1, n))
               IN  /\ recv_buf' = r.buf
                   /\ inbox' = [inbox EXCEPT ![sock] = Drop(@, n)]
                   /\ IF IsFrame(r) /\ r.resp[1] # OK /\ retries[g] < MAX_RETRIES
                      THEN /\ retries' = [retries EXCEPT ![g] = @ + 1]
                           /\ pc' = [pc EXCEPT ![g] = "reconnect"]
                           /\ UNCHANGED <<result, hist>>
                      ELSE IF r.isnil \/ Len(r.resp) > 0
                      THEN /\ result' = [result EXCEPT ![g] =
                                  [isnil |-> r.isnil, resp |-> r.resp, err |-> "nil"]]
                           /\ hist' = [hist EXCEPT ![g].nilSeen = r.isnil]
                           /\ pc' = [pc EXCEPT ![g] = "ret"]
                           /\ UNCHANGED retries
                      ELSE UNCHANGED <<result, hist, pc, retries>>
    /\ UNCHANGED <<sock, mutex, connOpen, wire, answered, nextConn,
                   args, depth, userClosed, ops, malformed, fatal, codecVars, extVars>>

\* one turn of the loop of recv (Read, Write to recv_buf, parse) and, when
\* recv returns, the branch of Do on its result; n = 0 is a Read that fails
DoRecv(g, n) ==
    /\ ~fatal
    /\ pc[g] = "recv"
    /\ IF n = 0
       THEN LET err == IF connOpen[sock] THEN "read: i/o timeout"
                       ELSE "use of closed network connection"
            IN  /\ IF RecvRetryable(err, retries[g])
                   THEN /\ retries' = [retries EXCEPT ![g] = @ + 1]
                        /\ pc' = [pc EXCEPT ![g] = "reconnect"]
                        /\ UNCHANGED result
                   ELSE /\ result' = [result EXCEPT ![g] = Failed(err)]
                        /\ pc' = [pc EXCEPT ![g] = "ret"]
                        /\ UNCHANGED retries
                /\ UNCHANGED <<recv_buf, inbox, hist>>
       ELSE /\ connOpen[sock]
            /\ n <= Len(inbox[sock])
            /\ n = Len(inbox[sock]) \/ n = PartialRead
            /\ LET r == Parse(recv_buf \o SubSeq(inbox[sock], 1, n))
               IN  /\ recv_buf' = r.buf
                   /\ inbox' = [inbox EXCEPT ![sock] = Drop(@, n)]
                   /\ IF r.isnil \/ Len(r.resp) > 0
                      THEN /\ result' = [result EXCEPT ![g] =
                                  [isnil |-> r.isnil, resp |-> r.resp, err |-> "nil"]]
                           /\ hist' = [hist EXCEPT ![g].nilSeen = r.isnil]
                           /\ pc' = [pc EXCEPT ![g] = "ret"]
                      ELSE UNCHANGED <<result, hist, pc>>
            /\ UNCHANGED retries
    /\ UNCHANGED <<sock, mutex, connOpen, wire, answered, nextConn,
                   args, depth, userClosed, ops, malformed, fatal, codecVars, extVars>>

\* retries++ is done; c.Reconnect(), then return c.Do(retries, args...): the
\* nested Do starts at its c.lock()
DoReconnect(g, dialOk) ==
    /\ ~fatal
    /\ pc[g] = "reconnect"
    /\ ReconnectEffect(dialOk)
    /\ hist' = [hist EXCEPT ![g].reconnects = @ + 1,
                            ![g].dials = @ + (IF dialOk /\ nextConn <= MaxConns THEN 1 ELSE 0)]
    /\ depth' = [depth EXCEPT ![g] = @ + 1]
    /\ pc' = [pc EXCEPT ![g] = "lock"]
    /\ UNCHANGED <<mutex, wire, answered, inbox, args, retries, result,
                   userClosed, ops, malformed, fatal, codecVars, extVars>>

\* Do returns: the deferred c.unlock() of every Do frame runs, innermost
\* first; a second Unlock of the unlocked mutex is a fatal runtime error
DoReturn(g) ==
    /\ ~fatal
    /\ pc[g] = "ret"
    /\ mutex' = 0
    /\ fatal' = (depth[g] > 0)
    /\ depth' = [depth EXCEPT ![g] = 0]
    /\ pc' = [pc EXCEPT ![g] = "idle"]
    /\ UNCHANGED <<sock, recv_buf, connOpen, wire, answered, inbox, nextConn,
                   args, retries, result, hist, userClosed, ops, malformed,
                   codecVars, extVars>>

\* Client.Close called by a goroutine
ClientClose(g) ==
    /\ ~fatal
    /\ pc[g] = "idle"
    /\ ops < MaxOps
    /\ ops' = ops + 1
    /\ CloseEffect
    /\ userClosed' = TRUE
    /\ UNCHANGED <<sock, recv_buf, mutex, wire, answered, inbox, nextConn,
                   pc, args, retries, depth, result, hist, malformed, fatal,
                   codecVars, extVars>>

\* Client.Reconnect called by a goroutine
ClientReconnect(g, dialOk) ==
    /\ ~fatal
    /\ pc[g] = "idle"
    /\ ops < MaxOps
    /\ ops' = ops + 1
    /\ ReconnectEffect(dialOk)
    /\ userClosed' = FALSE
    /\ hist' = [h \in Goroutines |-> [hist[h] EXCEPT !.afterClose = FALSE]]
    /\ UNCHANGED <<mutex, wire, answered, inbox, pc, args, retries, depth,
                   result, malformed, fatal, codecVars, extVars>>

\* the server answers the oldest unanswered request of a connection, with
\* the reply to it or with bytes that are not a frame
ServerReply(c, bad) ==
    /\ connOpen[c]
    /\ answered[c] < Len(wire[c])
    /\ bad => malformed < MaxMalformed
    /\ malformed' = malformed + (IF bad THEN 1 ELSE 0)
    /\ answered' = [answered EXCEPT ![c] = @ + 1]
    /\ inbox' = [inbox EXCEPT ![c] =
                    @ \o (IF bad THEN MalformedReply
                          ELSE ReplyTo(wire[c][answered[c] + 1]))]
    /\ UNCHANGED <<sock, recv_buf, mutex, connOpen, wire, nextConn, pc, args,
                   retries, depth, result, hist, userClosed, ops, fatal,
                   codecVars, extVars>>

\* the steps of goroutine g inside Do
DoStep(g) ==
    \/ DoLock(g)
    \/ \E ioOk \in BOOLEAN : DoSend(g, ioOk)
    \/ \E n \in 0..Len(inbox[sock]) : DoRecv(g, n)
    \/ \E dialOk \in BOOLEAN : DoReconnect(g, dialOk)
    \/ DoReturn(g)

Next ==
    \/ \E g \in Goroutines, a \in DoArgLists, r \in DoRetries : DoCall(g, a, r)
    \/ \E g \in Goroutines : DoLock(g)
    \/ \E g \in Goroutines, ioOk \in BOOLEAN : DoSend(g, ioOk)
    \/ \E g \in Goroutines, n \in 0..Len(inbox[sock]) : DoRecv(g, n)
    \/ \E g \in Goroutines, dialOk \in BOOLEAN : DoReconnect(g, dialOk)
    \/ \E g \in Goroutines : DoReturn(g)
    \/ \E g \in Goroutines : ClientClose(g)
    \/ \E g \in Goroutines, dialOk \in BOOLEAN : ClientReconnect(g, dialOk)
    \/ \E c \in Conns, bad \in BOOLEAN : ServerReply(c, bad)

Spec == Init /\ [][Next]_vars

\* a goroutine that can take a step of Do takes one: the scheduler runs it,
\* and a socket write, read or dial completes or fails within its deadline
FairSpec == Spec /\ \A g \in Goroutines : WF_vars(DoStep(g))

\* ------------------------------------------------------------------------
\* The Cluster: key placement and the bulk operations
\* ------------------------------------------------------------------------
Keys == {"a", "b", "c"}

\* s[0], s[1] of the SHA-1 digest of the key
Sha1Head(k) ==
    CASE k = "a" -> <<134, 247>>
      [] k = "b" -> <<233, 215>>
      [] k = "c" -> <<132, 165>>

Uint16(x) == x % 65536

RECURSIVE BitOr(_, _)
BitOr(x, y) ==
    IF x = 0 THEN y
    ELSE IF y = 0 THEN x
    ELSE (IF x % 2 = 1 \/ y % 2 = 1 THEN 1 ELSE 0) + 2 * BitOr(x \div 2, y \div 2)

RECURSIVE Shl16(_, _)
Shl16(x, n) == IF n = 0 THEN Uint16(x) ELSE Shl16(Uint16(2 * x), n - 1)

\* Cluster.locate on a table of n shards: the position, or the runtime panic
\* of the integer division by zero
Locate(k, n) ==
    LET s == Sha1Head(k)
        m == Uint16(n)
    IN  IF m = 0 THEN [panic |-> TRUE, pos |-> 0]
        ELSE [panic |-> FALSE,
              pos |-> BitOr(Shl16(Uint16(s[1]), 0), Shl16(Uint16(s[2]), 8)) % m]

\* res[loc] = append(res[loc], x) that puts x in front
PutFront(res, l, x) ==
    IF l \in DOMAIN res THEN [res EXCEPT ![l] = <<x>> \o @]
    ELSE [j \in DOMAIN res \cup {l} |-> IF j = l THEN <<x>> ELSE res[j]]

\* res[loc] = append(res[loc], x) on the map res
Put(res, l, x) ==
    IF l \in DOMAIN res THEN [res EXCEPT ![l] = Append(@, x)]
    ELSE [j \in DOMAIN res \cup {l} |-> IF j = l THEN <<x>> ELSE res[j]]

EmptyMap == [j \in {} |-> <<>>]

\* the loop of locateKeys over ks, res being the map built so far
RECURSIVE LocateKeysLoop(_, _, _)
LocateKeysLoop(ks, n, res) ==
    IF ks = <<>> THEN res
    ELSE LocateKeysLoop(Tail(ks), n, Put(res, Locate(Head(ks), n).pos, Head(ks)))

\* the loop of locatePairs over ps
RECURSIVE LocatePairsLoop(_, _, _)
LocatePairsLoop(ps, n, res) ==
    IF ps = <<>> THEN res
    ELSE LocatePairsLoop(Tail(ps), n, Put(res, Locate(Head(ps).k, n).pos, Head(ps)))

LocateKeys(ks, n)  == LocateKeysLoop(ks, n, EmptyMap)
LocatePairs(ps, n) == LocatePairsLoop(ps, n, EmptyMap)

\* the pairs MultiSet is called with: the i-th has key kIn[i] and value i
PairsOf(ks) == [i \in 1..Len(ks) |-> [k |-> ks[i], v |-> i]]

\* the pairs a shard returns for the keys it is asked
StoredPairs(ks) == [i \in 1..Len(ks) |-> [k |-> ks[i], v |-> <<"v", ks[i]>>]]

BulkOps == {"MultiGet", "MultiSet", "MultiDel"}

ClusterInit ==
    /\ ClientInit
    /\ CodecIdle
    /\ ParseIdle
    /\ TypedIdle
    /\ TimedIdle
    /\ nShards \in 0..MaxShards
    /\ cop \in BulkOps \cup {"Get", "Close"}
    /\ kIn \in UNION { [1..n -> Keys] : n \in 0..MaxKeys }
    /\ cop = "Get" => Len(kIn) = 1
    /\ cop = "Close" => Len(kIn) = 0
    /\ cpc = "start"
    /\ parts = EmptyMap
    /\ wpc = [i \in 0..(nShards - 1) |-> "none"]
    /\ wmsg = [i \in 0..(nShards - 1) |-> [from |-> i, failed |-> FALSE, id |-> -1, nilps |-> TRUE, pairs |-> <<>>]]
    /\ ch = <<>>
    /\ got = 0
    /\ acc = <<>>
    /\ errVar = NilErr
    /\ errWriters = {}
    /\ loc = 0
    /\ shClosed = [i \in 0..(nShards - 1) |-> FALSE]
    /\ ci = 0

\* a single-key operation (Cluster.Get, Set, Del, ...): c.shards[c.locate(key)]
ClusterSingle ==
    /\ cpc = "start"
    /\ cop = "Get"
    /\ LET l == Locate(kIn[1], nShards)
       IN  IF l.panic THEN cpc' = "panic" /\ UNCHANGED loc
           ELSE cpc' = "done" /\ loc' = l.pos
    /\ UNCHANGED <<clientVars, codecVars, parseVars, typedVars, timedVars, shClosed, ci>>
    /\ UNCHANGED <<nShards, cop, kIn, parts, wpc, wmsg, ch,
                   got, acc, errVar, errWriters>>

\* the head of a bulk operation: the test of the empty input, then
\* locateKeys / locatePairs and make(chan, len(parts))
ClusterStart ==
    /\ cpc = "start"
    /\ cop \in BulkOps
    /\ IF Len(kIn) = 0 THEN cpc' = "done" /\ UNCHANGED parts
       ELSE IF Locate(kIn[1], nShards).panic THEN cpc' = "panic" /\ UNCHANGED parts
       ELSE /\ parts' = IF cop = "MultiSet" THEN LocatePairs(PairsOf(kIn), nShards)
                        ELSE LocateKeys(kIn, nShards)
            /\ cpc' = "spawn"
    /\ UNCHANGED <<clientVars, codecVars, parseVars, typedVars, timedVars, shClosed, ci>>
    /\ UNCHANGED <<nShards, cop, kIn, wpc, wmsg, ch, got,
                   acc, errVar, errWriters, loc>>

\* one turn of the loop over parts: go func(i, part, c.shards[i]); the order
\* of a range over a map is not fixed
ClusterSpawn(i) ==
    /\ cpc = "spawn"
    /\ i \in DOMAIN parts
    /\ wpc[i] = "none"
    /\ wpc' = [wpc EXCEPT ![i] = "call"]
    /\ cpc' = IF \A j \in DOMAIN parts \ {i} : wpc[j] # "none" THEN "collect" ELSE "spawn"
    /\ UNCHANGED <<clientVars, codecVars, parseVars, typedVars, timedVars, shClosed, ci>>
    /\ UNCHANGED <<nShards, cop, kIn, parts, wmsg, ch, got,
                   acc, errVar, errWriters, loc>>

\* the worker of shard i calls shard.MultiGet / MultiSet / MultiDel, which
\* answers ok, not_found or with an error, and picks its message
WorkerCall(i, outcome) ==
    /\ i \in DOMAIN wpc
    /\ wpc[i] = "call"
    /\ outcome = "not_found" => cop = "MultiGet"
    /\ wmsg' = [wmsg EXCEPT ![i] =
                  IF cop = "MultiGet"
                  THEN [from |-> i, failed |-> outcome = "error", id |-> -1,
                        nilps |-> outcome # "ok",
                        pairs |-> IF outcome = "ok" THEN StoredPairs(parts[i]) ELSE <<>>]
                  ELSE [from |-> i, failed |-> outcome = "error",
                        id |-> IF outcome = "ok" THEN i ELSE -1,
                        nilps |-> TRUE, pairs |-> <<>>]]
    /\ wpc' = [wpc EXCEPT ![i] =
                  IF cop # "MultiGet" /\ outcome = "error" THEN "seterr" ELSE "send"]
    /\ UNCHANGED <<clientVars, codecVars, parseVars, typedVars, timedVars, shClosed, ci>>
    /\ UNCHANGED <<nShards, cop, kIn, cpc, parts, ch, got,
                   acc, errVar, errWriters, loc>>

\* the error value err2 of the worker of shard i
ErrOf(i) == <<"error of shard", i>>

\* err = err2 in the worker of MultiSet / MultiDel: an assignment to the
\* named result of the caller, captured by every worker and not guarded;
\* the first of its two stores writes the type word
WorkerSetErr(i) ==
    /\ i \in DOMAIN wpc
    /\ wpc[i] = "seterr"
    /\ errVar' = [errVar EXCEPT !.typ = ErrOf(i)]
    /\ errWriters' = errWriters \cup {i}
    /\ wpc' = [wpc EXCEPT ![i] = "seterr2"]
    /\ UNCHANGED <<clientVars, codecVars, parseVars, typedVars, timedVars, shClosed, ci>>
    /\ UNCHANGED <<nShards, cop, kIn, cpc, parts, wmsg, ch,
                   got, acc, loc>>

\* the second store of err = err2 writes the data word
WorkerSetErrData(i) ==
    /\ i \in DOMAIN wpc
    /\ wpc[i] = "seterr2"
    /\ errVar' = [errVar EXCEPT !.data = ErrOf(i)]
    /\ wpc' = [wpc EXCEPT ![i] = "send"]
    /\ UNCHANGED <<clientVars, codecVars, parseVars, typedVars, timedVars, shClosed, ci>>
    /\ UNCHANGED <<nShards, cop, kIn, cpc, parts, wmsg, ch,
                   got, acc, errWriters, loc>>

\* a send after which the worker goes round to send again
WorkerSendAgain(i) ==
    /\ i \in DOMAIN wpc
    /\ wpc[i] = "send"
    /\ Len(ch) < Cardinality(DOMAIN parts)
    /\ ch' = Append(ch, wmsg[i])
    /\ UNCHANGED <<clientVars, codecVars, parseVars, typedVars, timedVars, shClosed, ci>>
    /\ UNCHANGED <<nShards, cop, kIn, cpc, parts, wpc, wmsg, got,
                   acc, errVar, errWriters, loc>>

\* ch <- ... in the worker; the channel has room for len(parts) messages
WorkerSend(i) ==
    /\ i \in DOMAIN wpc
    /\ wpc[i] = "send"
    /\ Len(ch) < Cardinality(DOMAIN parts)
    /\ ch' = Append(ch, wmsg[i])
    /\ wpc' = [wpc EXCEPT ![i] = "done"]
    /\ UNCHANGED <<clientVars, codecVars, parseVars, typedVars, timedVars, shClosed, ci>>
    /\ UNCHANGED <<nShards, cop, kIn, cpc, parts, wmsg, got,
                   acc, errVar, errWriters, loc>>

\* a caller that appends twice what a message stands for
ContributionTwice(m) ==
    IF cop = "MultiGet" THEN m.pairs \o m.pairs
    ELSE IF m.id < 0 THEN <<>>
    ELSE IF cop = "MultiSet"
    THEN [j \in 1..(2 * Len(parts[m.id])) |-> parts[m.id][((j - 1) % Len(parts[m.id])) + 1].k]
    ELSE parts[m.id] \o parts[m.id]

\* what the caller appends for a message
Contribution(m) ==
    IF cop = "MultiGet" THEN m.pairs
    ELSE IF m.id < 0 THEN <<>>
    ELSE IF cop = "MultiSet" THEN [j \in 1..Len(parts[m.id]) |-> parts[m.id][j].k]
    ELSE parts[m.id]

\* one turn of the receive loop of the caller: <-ch and the appends; after
\* len(parts) turns the operation returns
ClusterCollect ==
    /\ cpc = "collect"
    /\ got < Cardinality(DOMAIN parts)
    /\ ch # <<>>
    /\ acc' = acc \o Contribution(Head(ch))
    /\ ch' = Tail(ch)
    /\ got' = got + 1
    /\ cpc' = IF got + 1 = Cardinality(DOMAIN parts) THEN "done" ELSE "collect"
    /\ UNCHANGED <<clientVars, codecVars, parseVars, typedVars, timedVars, shClosed, ci>>
    /\ UNCHANGED <<nShards, cop, kIn, parts, wpc, wmsg,
                   errVar, errWriters, loc>>

\* one turn of the loop of Cluster.Close: conn.Close() on shard ci, and the
\* return of its error when it is not nil; after the last shard, return nil
ClusterClose(fails) ==
    /\ cpc = "start"
    /\ cop = "Close"
    /\ IF ci < nShards
       THEN /\ shClosed' = [shClosed EXCEPT ![ci] = TRUE]
            /\ IF fails
               THEN /\ errVar' = [typ |-> ErrOf(ci), data |-> ErrOf(ci)]
                    /\ cpc' = "done"
                    /\ UNCHANGED ci
               ELSE /\ ci' = ci + 1
                    /\ UNCHANGED <<errVar, cpc>>
       ELSE /\ ~fails
            /\ cpc' = "done"
            /\ UNCHANGED <<shClosed, ci, errVar>>
    /\ UNCHANGED <<clientVars, codecVars, parseVars, typedVars, timedVars>>
    /\ UNCHANGED <<nShards, cop, kIn, parts, wpc, wmsg, ch, got, acc,
                   errWriters, loc>>

ClusterNext ==
    \/ ClusterSingle
    \/ ClusterStart
    \/ \E i \in 0..(MaxShards - 1) : ClusterSpawn(i)
    \/ \E i \in 0..(MaxShards - 1), o \in {"ok", "not_found", "error"} : WorkerCall(i, o)
    \/ \E i \in 0..(MaxShards - 1) : WorkerSetErr(i)
    \/ \E i \in 0..(MaxShards - 1) : WorkerSetErrData(i)
    \/ \E i \in 0..(MaxShards - 1) : WorkerSend(i)
    \/ ClusterCollect
    \/ \E fails \in BOOLEAN : ClusterClose(fails)

ClusterSpec == ClusterInit /\ [][ClusterNext]_vars

\* ------------------------------------------------------------------------
\* The typed methods: what they make of the (resp, err) Do returns
\* ------------------------------------------------------------------------
ErrBadResponse == "bad response"

Returns(isnil, val, err) == [panic |-> FALSE, isnil |-> isnil, val |-> val, err |-> err]

\* the runtime error "index out of range"
Panics == [panic |-> TRUE, isnil |-> TRUE, val |-> <<>>, err |-> "none"]

\* strconv.ParseInt(s, 10, 64), for texts short enough to be in range: what
\* strconv.Atoi does
ParseInt(s) == Atoi(s)

\* Client.Get
Get(resp, err) ==
    IF err # "nil" THEN Returns(TRUE, <<>>, err)
    ELSE IF Len(resp) = 2 /\ resp[1] = OK THEN Returns(FALSE, resp[2], "nil")
    ELSE IF Len(resp) > 0 /\ resp[1] = NOT_FOUND THEN Returns(TRUE, <<>>, "nil")
    ELSE Returns(TRUE, <<>>, ErrBadResponse)

\* the loop of Client.MultiGet over resp, from the 0-based index i
RECURSIVE MultiGetLoop(_, _, _)
MultiGetLoop(resp, i, pairs) ==
    IF ~(i < Len(resp)) THEN pairs
    ELSE MultiGetLoop(resp, i + 2, Append(pairs, [k |-> resp[i + 1], v |-> resp[i + 2]]))

\* Client.MultiGet
MultiGet(resp, err) ==
    IF err # "nil" THEN Returns(TRUE, <<>>, err)
    ELSE IF Len(resp) % 2 = 1 /\ resp[1] = OK
    THEN LET pairs == MultiGetLoop(resp, 1, <<>>)
         IN  Returns(pairs = <<>>, pairs, "nil")
    ELSE IF Len(resp) > 0 /\ resp[1] = NOT_FOUND THEN Returns(TRUE, <<>>, "nil")
    ELSE Returns(TRUE, <<>>, ErrBadResponse)

\* esMap[k] = v
MapSet(m, k, v) == [x \in DOMAIN m \cup {k} |-> IF x = k THEN v ELSE m[x]]

\* the loop of ZScan / ZRScan over res = resp[1:], from the 0-based index i:
\* res[i+1] is read without a test of its presence
RECURSIVE ScanLoop(_, _, _)
ScanLoop(res, i, esMap) ==
    IF ~(i < Len(res)) THEN Returns(FALSE, esMap, "nil")
    ELSE IF ~(i + 1 < Len(res)) THEN Panics
    ELSE LET v == ParseInt(res[i + 2])
         IN  IF v.err THEN Returns(TRUE, <<>>, "invalid syntax")
             ELSE ScanLoop(res, i + 2, MapSet(esMap, res[i + 1], v.val))

\* Client.ZScan
ZScan(resp, err) ==
    IF err # "nil" THEN Returns(TRUE, <<>>, err)
    ELSE IF Len(resp) > 0 /\ resp[1] = OK THEN ScanLoop(Tail(resp), 0, <<>>)
    ELSE Returns(TRUE, <<>>, ErrBadResponse)

\* Client.ZRScan
ZRScan(resp, err) ==
    IF err # "nil" THEN Returns(TRUE, <<>>, err)
    ELSE IF Len(resp) > 0 /\ resp[1] = OK THEN ScanLoop(Tail(resp), 0, <<>>)
    ELSE Returns(TRUE, <<>>, ErrBadResponse)

ErrNotEnoughParams == "not enougn params"

\* Client.MultiDel
MultiDel(resp, err) ==
    IF err # "nil" THEN Returns(TRUE, <<>>, err)
    ELSE IF Len(resp) > 0 /\ resp[1] = OK THEN Returns(FALSE, TRUE, "nil")
    ELSE Returns(TRUE, <<>>, ErrBadResponse)

\* the loop of Client.MultiHGet over res = resp[1:], from the 0-based index i
RECURSIVE MultiHGetLoop(_, _, _)
MultiHGetLoop(res, i, fvMap) ==
    IF ~(i < Len(res)) THEN Returns(FALSE, fvMap, "nil")
    ELSE MultiHGetLoop(res, i + 2, MapSet(fvMap, res[i + 1], res[i + 2]))

\* Client.MultiHGet: the err of Do is not looked at
MultiHGet(fieldList, resp, err) ==
    IF Len(fieldList) = 0 THEN Returns(TRUE, <<>>, ErrNotEnoughParams)
    ELSE IF Len(resp) % 2 = 1 /\ resp[1] = OK THEN MultiHGetLoop(Tail(resp), 0, <<>>)
    ELSE Returns(TRUE, <<>>, ErrBadResponse)

\* Client.MultiHDel
MultiHDel(fieldList, resp, err) ==
    IF Len(fieldList) = 0 THEN Returns(TRUE, <<>>, ErrNotEnoughParams)
    ELSE IF err # "nil" THEN Returns(TRUE, <<>>, err)
    ELSE IF Len(resp) = 2 /\ resp[1] = OK THEN Returns(FALSE, TRUE, "nil")
    ELSE Returns(TRUE, <<>>, ErrBadResponse)

\* the loop of Client.MultiZGet over res = resp[1:], from the 0-based index i
RECURSIVE MultiZGetLoop(_, _, _)
MultiZGetLoop(res, i, esMap) ==
    IF ~(i < Len(res)) THEN Returns(FALSE, esMap, "nil")
    ELSE LET v == ParseInt(res[i + 2])
         IN  IF v.err THEN Returns(TRUE, <<>>, "invalid syntax")
             ELSE MultiZGetLoop(res, i + 2, MapSet(esMap, res[i + 1], v.val))

\* Client.MultiZGet: the err of Do is not looked at
MultiZGet(eleList, resp, err) ==
    IF Len(eleList) = 0 THEN Returns(TRUE, <<>>, ErrNotEnoughParams)
    ELSE IF Len(resp) % 2 = 1 /\ resp[1] = OK THEN MultiZGetLoop(Tail(resp), 0, <<>>)
    ELSE Returns(TRUE, <<>>, ErrBadResponse)

\* Client.MultiZDel
MultiZDel(eleList, resp, err) ==
    IF Len(eleList) = 0 THEN Returns(TRUE, <<>>, ErrNotEnoughParams)
    ELSE IF err # "nil" THEN Returns(TRUE, <<>>, err)
    ELSE IF Len(resp) = 2 /\ resp[1] = OK THEN Returns(FALSE, TRUE, "nil")
    ELSE Returns(TRUE, <<>>, ErrBadResponse)

\* args = append(args, x) for every x of the list
StrArgs(list) == [i \in 1..Len(list) |-> StrArg(list[i])]

\* the key (name of a hash or of a sorted set) the typed methods are called
\* with, and the startEle, scoreStart, scoreEnd, limit of the scans
TKey == <<"h">>
ScanRange == <<StrArg(<<>>), IntArg(1), IntArg(9), IntArg(5)>>

\* the argument lists the typed methods give to Do
GetArgs(key) == <<StrArg(<<"g", "e", "t">>), StrArg(key)>>
MultiGetArgs(ks) == <<StrArg(<<"m", "u", "l", "t", "i", "_", "g", "e", "t">>)>> \o StrArgs(ks)
MultiDelArgs(ks) == <<StrArg(<<"m", "u", "l", "t", "i", "_", "d", "e", "l">>)>> \o StrArgs(ks)
MultiHGetArgs(key, fieldList) ==
    <<StrArg(<<"m", "u", "l", "t", "i", "_", "h", "g", "e", "t">>), StrArg(key)>>
        \o StrArgs(fieldList)
MultiHDelArgs(key, fieldList) ==
    <<StrArg(<<"m", "u", "l", "t", "i", "_", "d", "e", "l">>), StrArg(key)>>
        \o StrArgs(fieldList)
MultiZGetArgs(key, eleList) ==
    <<StrArg(<<"m", "u", "l", "t", "i", "_", "z", "g", "e", "t">>), StrArg(key)>>
        \o StrArgs(eleList)
MultiZDelArgs(key, eleList) ==
    <<StrArg(<<"m", "u", "l", "t", "i", "_", "z", "d", "e", "l">>), StrArg(key)>>
        \o StrArgs(eleList)
ZScanArgs(key) == <<StrArg(<<"z", "s", "c", "a", "n">>), StrArg(key)>> \o ScanRange
ZRScanArgs(key) == <<StrArg(<<"z", "r", "s", "c", "a", "n">>), StrArg(key)>> \o ScanRange

ListMethods == {"MultiGet", "MultiDel", "MultiHGet", "MultiHDel", "MultiZGet", "MultiZDel"}
TypedMethods == {"Get", "ZScan", "ZRScan"} \cup ListMethods

\* the fields of the frames the server answers with
FrameFields == {OK, NOT_FOUND, ERROR, <<"a">>, <<"7">>}

\* what Do returns: a frame and a nil error, a nil frame and a nil error (a
\* malformed reply), or a nil frame and an error
TypedInit ==
    /\ ClientInit
    /\ CodecIdle
    /\ ParseIdle
    /\ ClusterIdle
    /\ TimedIdle
    /\ tMethod \in TypedMethods
    /\ tList \in UNION { [1..n -> {<<"f">>, <<"g">>}] : n \in 0..MaxList }
    /\ tMethod \notin ListMethods => tList = <<>>
    /\ tSent = <<>>
    /\ tResp \in UNION { [1..n -> FrameFields] : n \in 0..MaxFields }
    /\ tErr \in {"nil", "read: i/o timeout"}
    /\ tErr # "nil" => tResp = <<>>
    /\ tOut = NoOut
    /\ tpc = "call"

\* method m gives sent to Do and returns out
TypedReturn(m, sent, out) ==
    /\ tpc = "call"
    /\ tMethod = m
    /\ tSent' = sent
    /\ tOut' = out
    /\ tpc' = "done"
    /\ UNCHANGED <<clientVars, codecVars, parseVars, clusterVars, timedVars>>
    /\ UNCHANGED <<tMethod, tList, tResp, tErr>>

CallGet      == TypedReturn("Get", GetArgs(TKey), Get(tResp, tErr))
CallMultiGet == TypedReturn("MultiGet", MultiGetArgs(tList), MultiGet(tResp, tErr))
CallMultiDel == TypedReturn("MultiDel", MultiDelArgs(tList), MultiDel(tResp, tErr))
CallZScan    == TypedReturn("ZScan", ZScanArgs(TKey), ZScan(tResp, tErr))
CallZRScan   == TypedReturn("ZRScan", ZRScanArgs(TKey), ZRScan(tResp, tErr))
\* Client.MultiHGet: with an empty list it returns before it calls Do
CallMultiHGet ==
    TypedReturn("MultiHGet", IF Len(tList) = 0 THEN <<>> ELSE MultiHGetArgs(TKey, tList),
                MultiHGet(tList, tResp, tErr))
\* Client.MultiHDel: with an empty list it returns before it calls Do
CallMultiHDel ==
    TypedReturn("MultiHDel", IF Len(tList) = 0 THEN <<>> ELSE MultiHDelArgs(TKey, tList),
                MultiHDel(tList, tResp, tErr))
\* Client.MultiZGet: with an empty list it returns before it calls Do
CallMultiZGet ==
    TypedReturn("MultiZGet", IF Len(tList) = 0 THEN <<>> ELSE MultiZGetArgs(TKey, tList),
                MultiZGet(tList, tResp, tErr))
\* Client.MultiZDel: with an empty list it returns before it calls Do
CallMultiZDel ==
    TypedReturn("MultiZDel", IF Len(tList) = 0 THEN <<>> ELSE MultiZDelArgs(TKey, tList),
                MultiZDel(tList, tResp, tErr))

TypedNext ==
    \/ CallGet
    \/ CallMultiGet
    \/ CallMultiDel
    \/ CallZScan
    \/ CallZRScan
    \/ CallMultiHGet
    \/ CallMultiHDel
    \/ CallMultiZGet
    \/ CallMultiZDel

TypedSpec == TypedInit /\ [][TypedNext]_vars

\* ------------------------------------------------------------------------
\* One attempt of Do on the clock: send arms the write deadline and writes,
\* recv arms the read deadline and reads until parse has a frame
\* ------------------------------------------------------------------------
TimedInit ==
    /\ ClientInit
    /\ CodecIdle
    /\ ParseIdle
    /\ ClusterIdle
    /\ TypedIdle
    /\ now = 0
    /\ dpc = "armWrite"
    /\ wDeadline = 0
    /\ rDeadline = 0
    /\ ioStart = 0
    /\ dTotal \in 1..MaxChunks
    /\ dSent = 0
    /\ dRead = 0
    /\ dErr = "none"

\* c.sock.SetWriteDeadline(time.Now().Add(TIMEOUT)), and Write is called
ArmWrite ==
    /\ dpc = "armWrite"
    /\ wDeadline' = now + TIMEOUT
    /\ ioStart' = now
    /\ dpc' = "write"
    /\ UNCHANGED <<now, rDeadline, dTotal, dSent, dRead, dErr>>
    /\ UNCHANGED <<clientVars, codecVars, parseVars, clusterVars, typedVars>>

\* c.sock.Write returns: the bytes were taken before the deadline, or the
\* deadline has passed
SockWrite ==
    /\ dpc = "write"
    /\ IF now < wDeadline
       THEN dpc' = "armRead" /\ UNCHANGED dErr
       ELSE dpc' = "done" /\ dErr' = "write: i/o timeout"
    /\ UNCHANGED <<now, wDeadline, rDeadline, ioStart, dTotal, dSent, dRead>>
    /\ UNCHANGED <<clientVars, codecVars, parseVars, clusterVars, typedVars>>

\* c.sock.SetReadDeadline(time.Now().Add(TIMEOUT)) before the loop of recv,
\* and the first Read is called
ArmRead ==
    /\ dpc = "armRead"
    /\ rDeadline' = now + TIMEOUT
    /\ ioStart' = now
    /\ dpc' = "read"
    /\ UNCHANGED <<now, wDeadline, dTotal, dSent, dRead, dErr>>
    /\ UNCHANGED <<clientVars, codecVars, parseVars, clusterVars, typedVars>>

\* c.sock.Read returns a chunk before the deadline; parse has the frame when
\* it was the last one, else the loop calls Read again
SockRead ==
    /\ dpc = "read"
    /\ now < rDeadline
    /\ dRead < dSent
    /\ dRead' = dRead + 1
    /\ IF dRead + 1 = dTotal
       THEN dpc' = "done" /\ dErr' = "nil" /\ UNCHANGED ioStart
       ELSE dpc' = "read" /\ ioStart' = now /\ UNCHANGED dErr
    /\ UNCHANGED <<now, wDeadline, rDeadline, dTotal, dSent>>
    /\ UNCHANGED <<clientVars, codecVars, parseVars, clusterVars, typedVars>>

\* c.sock.Read returns the timeout error: the read deadline has passed
ReadTimeout ==
    /\ dpc = "read"
    /\ now >= rDeadline
    /\ dpc' = "done"
    /\ dErr' = "read: i/o timeout"
    /\ UNCHANGED <<now, wDeadline, rDeadline, ioStart, dTotal, dSent, dRead>>
    /\ UNCHANGED <<clientVars, codecVars, parseVars, clusterVars, typedVars>>

\* the peer sends the next chunk of the response, once the request is written
PeerSend ==
    /\ dpc = "read"
    /\ dSent < dTotal
    /\ dSent' = dSent + 1
    /\ UNCHANGED <<now, dpc, wDeadline, rDeadline, ioStart, dTotal, dRead, dErr>>
    /\ UNCHANGED <<clientVars, codecVars, parseVars, clusterVars, typedVars>>

\* a second passes; a blocked Write or Read returns when its deadline comes
Tick ==
    /\ dpc \in {"armWrite", "write", "armRead", "read"}
    /\ now < MaxTime
    /\ dpc = "write" => now < wDeadline
    /\ dpc = "read" => now < rDeadline
    /\ now' = now + 1
    /\ UNCHANGED <<dpc, wDeadline, rDeadline, ioStart, dTotal, dSent, dRead, dErr>>
    /\ UNCHANGED <<clientVars, codecVars, parseVars, clusterVars, typedVars>>

TimedNext ==
    \/ ArmWrite
    \/ SockWrite
    \/ ArmRead
    \/ SockRead
    \/ ReadTimeout
    \/ PeerSend
    \/ Tick

TimedSpec == TimedInit /\ [][TimedNext]_vars

\* ------------------------------------------------------------------------
\* parse on any bytes: each turn of the loop of recv writes the bytes Read
\* returned to recv_buf and runs parse on it
\* ------------------------------------------------------------------------
ParseBytes == {"1", "0", "a", LF, CR}

ParseInit ==
    /\ ClientInit
    /\ CodecIdle
    /\ ClusterIdle
    /\ TypedIdle
    /\ TimedIdle
    /\ ParseIdle

\* Read returns n bytes; c.recv_buf.Write(tmp[0:n]); resp := c.parse()
RecvTurn(n) ==
    /\ pWritten + n <= MaxBytes
    /\ pWritten' = pWritten + n
    /\ \E chunk \in [1..n -> ParseBytes] :
          LET r == Parse(recv_buf \o chunk)
          IN  /\ pIn' = recv_buf \o chunk
              /\ recv_buf' = r.buf
              /\ pRes' = [isnil |-> r.isnil, resp |-> r.resp, called |-> TRUE]
    /\ UNCHANGED <<sock, mutex, connOpen, wire, answered, inbox, nextConn,
                   pc, args, retries, depth, result, hist, userClosed, ops,
                   malformed, fatal>>
    /\ UNCHANGED <<codecVars, clusterVars, typedVars, timedVars>>

ParseNext == \E n \in 1..MaxBytes : RecvTurn(n)

ParseSpec == ParseInit /\ [][ParseNext]_vars

\* ========================================================================
\* Properties
\* ========================================================================

InDo(g) == pc[g] # "idle"

\* the goroutines between the start of send and the end of recv
InFlight == {g \in Goroutines : pc[g] \in {"send", "recv"}}

\* the key of a get request
KeyOf(a) == a[2].s

\* C1: every call of Do eventually returns, given that every socket write,
\* read and dial completes or fails and that a runnable goroutine runs.
C1_DoReturns == \A g \in Goroutines : InDo(g) ~> ~InDo(g)

\* C2: a Do that met a transient I/O error with retries left reconnects and
\* then sends the same request again (and so on until it returns a frame or,
\* the bound exhausted, the last error).
C2_RetryResends ==
    \A g \in Goroutines : (pc[g] = "reconnect") ~> (pc[g] = "send" /\ depth[g] > 0)

\* C3: at most one goroutine is between the start of send and the end of
\* recv, so no request is written while another caller's exchange is open.
C3_OneInFlight == Cardinality(InFlight) <= 1

\* C3 witness: one goroutine is in the middle of receiving a reply that came
\* in part, and the other one has called Do and waits for the mutex.
C3_Witness ==
    \E g, h \in Goroutines :
        /\ g # h
        /\ pc[g] = "recv"
        /\ recv_buf # <<>>
        /\ mutex = g
        /\ pc[h] = "lock"

\* C4: a frame returned by Do is the reply to the request of that very call.
C4_OwnReply ==
    \A g \in Goroutines :
        pc[g] = "ret" /\ result[g].err = "nil" /\ ~result[g].isnil =>
            result[g].resp = ReplyFrame(KeyOf(args[g]))

\* C5: the send of a Do with an argument of an unsupported type makes Do
\* return the bad request error at once: nothing is written to any socket,
\* no socket is closed or dialed and the retry counter is not touched.
C5_BadArgumentNotSent ==
    [][\A g \in Goroutines :
          pc[g] = "send" /\ Encode(args[g]).err /\ pc'[g] # "send" =>
              /\ pc'[g] = "ret"
              /\ result'[g] = Failed("bad request")
              /\ wire' = wire
              /\ connOpen' = connOpen
              /\ sock' = sock
              /\ nextConn' = nextConn
              /\ retries' = retries]_vars

\* C5 witness: a Do(0, ...) whose bad argument follows a valid one is about to
\* return the bad request error, with nothing written and no reconnect.
C5_Witness ==
    \E g \in Goroutines :
        /\ pc[g] = "ret"
        /\ args[g] = BadCall
        /\ retries[g] = 0
        /\ result[g].err = "bad request"
        /\ hist[g].sent = 0
        /\ hist[g].reconnects = 0
        /\ connOpen[sock]

\* C6: a Do called after Close has returned (and with no Reconnect called
\* since) sends nothing, dials nothing and returns an error.
C6_ClosedStaysClosed ==
    \A g \in Goroutines :
        InDo(g) /\ hist[g].afterClose =>
            /\ hist[g].sent = 0
            /\ hist[g].dials = 0
            /\ pc[g] = "ret" => result[g].err # "nil"

\* C8: a Do whose recv met a malformed length prefix returns an error (or
\* retries), and the buffered bytes are gone when it returns.
C8_MalformedDiscarded ==
    \A g \in Goroutines :
        pc[g] = "ret" /\ hist[g].nilSeen =>
            /\ result[g].err # "nil"
            /\ recv_buf = <<>>

\* the frames one parse of the whole byte string yields
OneShot(bytes) == LET r == Parse(bytes) IN IF IsFrame(r) THEN <<r.resp>> ELSE <<>>

\* C7: a response fed to recv_buf in chunks of any sizes, with parse run after
\* each chunk, yields the frames that one parse of the whole response yields,
\* and leaves the buffer that parse leaves; no parse of a prefix that stops
\* short of the terminating empty line returns a frame or nil.
C7_ChunkedEqualsWhole ==
    /\ cPhase = "feed" /\ pending # <<>> => frames = <<>> /\ ~sawNil
    /\ cPhase = "done" /\ cErr = "nil" =>
         /\ frames = OneShot(cWire)
         /\ recv_buf = Parse(cWire).buf
         /\ ~sawNil

\* C7 witness: a response with a two-digit length prefix has been delivered
\* with one chunk ending inside a length prefix and one inside a payload that
\* holds newlines, and its frame has been decoded.
C7_Witness ==
    /\ cPhase = "done"
    /\ cArgs = <<StrArg(Payload10), StrArg(<<"a">>)>>
    /\ {"prefix", "payload"} \subseteq cuts
    /\ frames = <<<<Payload10, <<"a">>>>>>

\* C9 as stated: for every argument list that send accepts, the echoed bytes
\* decode to one frame whose fields are the encoded texts of the arguments.
C9_RoundTripEveryList ==
    cPhase = "done" /\ cErr = "nil" => frames = <<EncodedTexts(cArgs)>>

\* C9 amended: for every argument list that send accepts and that encodes to
\* at least one block, the echoed bytes decode to exactly one frame whose
\* fields are the encoded texts of the arguments, in order, a []string
\* argument giving one field per element; a list that encodes to no block
\* (no argument, or only empty []string arguments) decodes to no frame.
C9_RoundTrip ==
    cPhase = "done" /\ cErr = "nil" =>
        IF EncodedTexts(cArgs) # <<>>
        THEN frames = <<EncodedTexts(cArgs)>> /\ recv_buf = <<>>
        ELSE frames = <<>> /\ recv_buf = <<LF>>

\* C9 witness: a list with a two-element []string argument has made the round
\* trip and came back as a frame of three fields.
C9_Witness ==
    /\ cPhase = "done"
    /\ cArgs = <<StrArg(<<"s", "e", "t">>), ListArg(<<<<"a">>, <<"b", LF>>>>)>>
    /\ frames = <<<<<<"s", "e", "t">>, <<"a">>, <<"b", LF>>>>>>

\* the texts C10 names for an argument list, one per block
RECURSIVE ClaimedTexts(_)
ClaimedTexts(as) ==
    IF as = <<>> THEN <<>>
    ELSE LET a == Head(as)
             t == CASE a.t \in {"string", "[]byte"} -> <<a.s>>
                    [] a.t = "[]string" -> a.l
                    [] a.t = "bool" -> IF a.n = 1 THEN <<<<"1">>>> ELSE <<<<"0">>>>
                    [] a.t = "nil" -> <<<<>>>>
                    [] a.t = "int" -> <<Itoa(a.n)>>
                    [] OTHER -> <<FormatF(a.n)>>
         IN  t \o ClaimedTexts(Tail(as))

\* bytes is, for each text in order, a canonical decimal prefix whose value is
\* the length of the text, LF, the text, LF; then one LF and nothing more
RECURSIVE WellFramed(_, _)
WellFramed(bytes, texts) ==
    IF texts = <<>> THEN bytes = <<LF>>
    ELSE LET t == Head(texts)
             k == IndexByte(bytes)
             prefix == SubSeq(bytes, 1, k)
         IN  /\ k >= 1
             /\ \A i \in 1..k : IsDigit(prefix[i])
             /\ (k > 1 => prefix[1] # "0")
             /\ DigitsValue(prefix) = Len(t)
             /\ Len(bytes) >= k + 1 + Len(t) + 1
             /\ SubSeq(bytes, k + 2, k + 1 + Len(t)) = t
             /\ bytes[k + 2 + Len(t)] = LF
             /\ WellFramed(Drop(bytes, k + 2 + Len(t)), Tail(texts))

\* C10: what send writes is, for each argument in order, the block
\* <decimal byte length> LF <raw bytes> LF (one block per element for a
\* []string, "1"/"0" for a boolean, an empty block for nil), then exactly one
\* empty line; Do(0, "set", "a", "1") writes 3 LF set LF 1 LF a LF 1 LF 1 LF LF.
C10_SendFraming ==
    cPhase \in {"feed", "done"} /\ cErr = "nil" =>
        /\ WellFramed(cWire, ClaimedTexts(cArgs))
        /\ cArgs = SetA1 =>
             cWire = <<"3", LF, "s", "e", "t", LF, "1", LF, "a", LF,
                       "1", LF, "1", LF, LF>>

\* C10 witness: send has written the request set a 1.
C10_Witness ==
    /\ cPhase = "feed"
    /\ cArgs = SetA1
    /\ pending = cWire
    /\ Len(cWire) = 15

\* ------------------------------------------------------------------------
\* Cluster
\* ------------------------------------------------------------------------

\* the elements of xs, in order, whose key is placed on shard l of n
RECURSIVE OwnedKeys(_, _, _)
OwnedKeys(ks, l, n) ==
    IF ks = <<>> THEN <<>>
    ELSE (IF Locate(Head(ks), n).pos = l THEN <<Head(ks)>> ELSE <<>>)
         \o OwnedKeys(Tail(ks), l, n)

RECURSIVE OwnedPairs(_, _, _)
OwnedPairs(ps, l, n) ==
    IF ps = <<>> THEN <<>>
    ELSE (IF Locate(Head(ps).k, n).pos = l THEN <<Head(ps)>> ELSE <<>>)
         \o OwnedPairs(Tail(ps), l, n)

\* the workers whose sub-request failed
FailedShards ==
    {i \in DOMAIN parts : wpc[i] \in {"seterr", "seterr2", "send", "done"} /\ wmsg[i].failed}

\* the error a bulk operation returns; MultiGet has no error result
ReturnedErr == IF cop = "MultiGet" THEN "nil" ELSE errVar.typ

\* C11: on every Cluster that NewCluster returns, locate never fails and
\* gives (d0 + 256 * d1) mod N, an index in [0, N).
C11_LocateFormula ==
    cop = "Get" =>
        /\ cpc # "panic"
        /\ cpc = "done" =>
             /\ loc = (Sha1Head(kIn[1])[1] + 256 * Sha1Head(kIn[1])[2]) % nShards
             /\ loc \in 0..(nShards - 1)

\* C12: the map locateKeys / locatePairs returns has one group per shard that
\* owns an input key, and the group of a shard is the input restricted to the
\* keys locate places on that shard, in input order.
C12_Partition ==
    cpc \in {"spawn", "collect", "done"} /\ cop \in BulkOps /\ kIn # <<>> =>
        /\ DOMAIN parts = {Locate(kIn[i], nShards).pos : i \in 1..Len(kIn)}
        /\ \A l \in DOMAIN parts :
              parts[l] = IF cop = "MultiSet" THEN OwnedPairs(PairsOf(kIn), l, nShards)
                         ELSE OwnedKeys(kIn, l, nShards)

\* C12 witness: locatePairs has split the pairs of a, b, c over two shards,
\* shard 0 owning the first and the third.
C12_Witness ==
    /\ cpc = "spawn"
    /\ cop = "MultiSet"
    /\ nShards = 2
    /\ kIn = <<"a", "b", "c">>
    /\ DOMAIN parts = {0, 1}
    /\ Len(parts[0]) = 2
    /\ parts[0][1].v = 1 /\ parts[0][2].v = 3

\* C13: when the sub-request of a shard failed, what the bulk operation
\* returns tells so.
C13_FailureReported ==
    cpc = "done" /\ cop \in BulkOps /\ FailedShards # {} => ReturnedErr # "nil"

\* the contributions of the shards l, l+1, ... in that order
RECURSIVE InShardOrder(_)
InShardOrder(l) ==
    IF l >= nShards THEN <<>>
    ELSE (IF l \in DOMAIN parts THEN Contribution(wmsg[l]) ELSE <<>>) \o InShardOrder(l + 1)

\* C14: the result of a bulk operation is the concatenation of the successful
\* sub-results in increasing shard index, whatever the order of the workers.
C14_ShardOrder ==
    cpc = "done" /\ cop \in BulkOps /\ kIn # <<>> => acc = InShardOrder(0)

\* C15: no variable is written by more than one worker.
C15_SingleWriter == Cardinality(errWriters) <= 1

\* a step that is a call of Client.Close or Client.Reconnect by a goroutine
\* that is not inside Do
IsCloseOrReconnectCall == ops' = ops + 1 /\ pc' = pc

\* C16: while a goroutine holds the mutex of Do and is between its send and
\* the end of its recv, no Close or Reconnect called by another goroutine
\* closes or replaces the socket or changes the receive buffer.
C16_ExclusiveSocket ==
    [][IsCloseOrReconnectCall /\ InFlight # {} =>
           /\ sock' = sock
           /\ connOpen' = connOpen
           /\ recv_buf' = recv_buf]_vars

\* a step in which a call of Client.Reconnect returns: the one Do makes
\* before it resends, or the one a goroutine makes directly
IsReconnectReturn ==
    \/ \E g \in Goroutines : pc[g] = "reconnect" /\ pc'[g] = "lock"
    \/ IsCloseOrReconnectCall /\ ~userClosed'

\* C18: when Reconnect returns, the socket held before is closed and recv_buf
\* is empty, whether the dial succeeded or not; when it returns nil (the
\* socket was replaced) the socket held now is a new one and is open.
C18_ReconnectResets ==
    [][IsReconnectReturn =>
           /\ ~connOpen'[sock]
           /\ recv_buf' = <<>>
           /\ sock' # sock => sock' = nextConn /\ connOpen'[sock']]_vars

\* what Get returns when its first attempt succeeds: the stored value of the
\* key and a nil error, or nil and a nil error when nothing is stored
CleanGet(a) == Get(ReplyFrame(KeyOf(a)), "nil")

\* C17: a Get whose attempt failed with a transient I/O error goes on to a
\* later attempt, and when that one succeeds Get returns the same value and
\* nil error as a Get whose first attempt succeeded.
C17_RetriedGetSameValue ==
    \A g \in Goroutines :
        (pc[g] = "reconnect" /\ args[g] \in {GetA, GetB}) ~>
            (/\ pc[g] = "ret"
             /\ result[g].err = "nil" =>
                    Get(result[g].resp, result[g].err) = CleanGet(args[g]))

\* a frame that method m must refuse: its status is neither ok nor
\* not_found, or it is ok with a number of fields m does not expect
BadFrame(m, resp) ==
    /\ Len(resp) > 0
    /\ \/ resp[1] \notin {OK, NOT_FOUND}
       \/ /\ resp[1] = OK
          /\ IF m = "Get" THEN Len(resp) # 2 ELSE Len(resp) % 2 # 1

\* C19: no frame makes a typed method panic, and a frame with a wrong status
\* or a wrong number of fields makes it return the bad response error.
C19_BadFrameRejected ==
    tpc = "done" =>
        /\ ~tOut.panic
        /\ tErr = "nil" /\ BadFrame(tMethod, tResp) => tOut.err = ErrBadResponse

\* C20: the Write in progress has the deadline armed TIMEOUT after its call,
\* and every Read in progress, the first and the later ones of a response
\* that comes in chunks, has the deadline armed TIMEOUT after its own call.
C20_DeadlinePerRead ==
    /\ dpc = "write" => wDeadline = ioStart + TIMEOUT
    /\ dpc = "read" => rDeadline = ioStart + TIMEOUT

\* C21: when Cluster.Close has returned, with an error or without, the
\* connection of every shard of the table has been closed.
C21_AllShardsClosed ==
    cop = "Close" /\ cpc = "done" => \A i \in 0..(nShards - 1) : shClosed[i]

\* the last parse reported that no complete frame is available yet
ParsedIncomplete == pRes.called /\ ~pRes.isnil /\ pRes.resp = <<>>

\* the last parse returned a frame
ParsedFrame == pRes.called /\ ~pRes.isnil /\ pRes.resp # <<>>

\* C22: when parse returns the empty non-nil list, recv_buf is what it was
\* when parse was called, byte for byte.
C22_IncompleteKeepsBuffer == ParsedIncomplete => recv_buf = pIn

\* C22 witness: parse has decoded one whole field and met the length prefix
\* of a second one whose payload has not come, and has returned no frame.
C22_Witness ==
    /\ ParsedIncomplete
    /\ pIn = <<"1", LF, "a", LF, "1", LF>>
    /\ recv_buf = pIn

\* the frame of buf ends with its byte k: parse of the first k bytes gives
\* the frame resp and uses them up, and no shorter prefix gives a frame
FrameEndsAt(buf, k, resp) ==
    /\ buf[k] = LF
    /\ LET r == Parse(SubSeq(buf, 1, k))
       IN  IsFrame(r) /\ r.resp = resp /\ r.buf = <<>>
    /\ \A j \in 1..(k - 1) : ~IsFrame(Parse(SubSeq(buf, 1, j)))

\* C23: when parse returns a frame, what it removed from recv_buf is the
\* bytes from the start through the empty line that ends that frame, and
\* what it left is every byte after it, unchanged and in order; the frame
\* has at least one field.
C23_FrameConsumedExactly ==
    ParsedFrame =>
        \E k \in 1..Len(pIn) :
            /\ FrameEndsAt(pIn, k, pRes.resp)
            /\ recv_buf = Drop(pIn, k)

\* C23 witness: an empty line, the frame (a), and the first byte of a next
\* frame; parse has returned (a) and left that byte.
C23_Witness ==
    /\ ParsedFrame
    /\ pIn = <<LF, "1", LF, "a", LF, LF, "1">>
    /\ pRes.resp = <<<<"a">>>>
    /\ recv_buf = <<"1">>

\* C24: when a Read of recv brings the bytes that complete a frame, Do goes
\* to its return with that frame and a nil error, whatever the status field,
\* and without a retry: no Reconnect, no resend, retries untouched.
C24_FrameReturnedAsIs ==
    [][\A g \in Goroutines :
          pc[g] = "recv" /\ Len(inbox'[sock]) < Len(inbox[sock]) =>
              LET n == Len(inbox[sock]) - Len(inbox'[sock])
                  r == Parse(recv_buf \o SubSeq(inbox[sock], 1, n))
              IN  IsFrame(r) =>
                      /\ pc'[g] = "ret"
                      /\ result'[g] = [isnil |-> FALSE, resp |-> r.resp, err |-> "nil"]
                      /\ retries'[g] = retries[g]
                      /\ sock' = sock
                      /\ connOpen' = connOpen
                      /\ wire' = wire]_vars

\* C24 witness: a Do(0, "get", "b") is about to return the frame (not_found)
\* with a nil error, having sent once and never reconnected.
C24_Witness ==
    \E g \in Goroutines :
        /\ pc[g] = "ret"
        /\ args[g] = GetB
        /\ retries[g] = 0
        /\ result[g] = [isnil |-> FALSE, resp |-> <<NOT_FOUND>>, err |-> "nil"]
        /\ hist[g].sent = 1
        /\ hist[g].reconnects = 0

\* the shards that own at least one input key
Owners == {Locate(kIn[i], nShards).pos : i \in 1..Len(kIn)}

\* the workers that have sent their message
SentWorkers == {i \in DOMAIN wpc : wpc[i] = "done"}

\* C25: a bulk operation starts a worker only for a shard that owns an input
\* key and one worker at most per shard; a worker that is about to send finds
\* room in the channel; every message is the one message of a worker that has
\* sent; the operation returns when it has started a worker for every owner
\* and received the message of each; with no input it starts no worker.
C25_OneWorkerOneMessage ==
    cop \in BulkOps =>
        /\ \A i \in DOMAIN wpc : wpc[i] # "none" => kIn # <<>> /\ i \in Owners
        /\ \A i \in DOMAIN wpc : wpc[i] = "send" => Len(ch) < Cardinality(Owners)
        /\ \A p, q \in 1..Len(ch) : p # q => ch[p].from # ch[q].from
        /\ \A p \in 1..Len(ch) : ch[p].from \in SentWorkers
        /\ got + Len(ch) = Cardinality(SentWorkers)
        /\ cpc = "collect" => \A i \in Owners : wpc[i] # "none"
        /\ cpc = "done" /\ kIn # <<>> =>
               /\ SentWorkers = Owners
               /\ got = Cardinality(Owners)
               /\ ch = <<>>

\* C25 witness: MultiSet of pairs with the keys a, b, c on three shards has
\* returned: shards 0 and 1 had a worker each and both messages were
\* received, shard 2 owns no key and had none.
C25_Witness ==
    /\ cop = "MultiSet"
    /\ cpc = "done"
    /\ nShards = 3
    /\ kIn = <<"a", "b", "c">>
    /\ wpc = (0 :> "done" @@ 1 :> "done" @@ 2 :> "none")
    /\ got = 2

\* the shards whose sub-request succeeded (for MultiGet, with pairs)
SucceededShards ==
    {i \in DOMAIN parts : wpc[i] = "done" /\ ~wmsg[i].failed
                          /\ (cop = "MultiGet" => ~wmsg[i].nilps)}

\* what shard l brings to the result when its sub-request succeeds: the
\* pairs it stores for its keys, or the keys of its partition
ExpectedOf(l) ==
    IF cop = "MultiGet" THEN StoredPairs(OwnedKeys(kIn, l, nShards))
    ELSE OwnedKeys(kIn, l, nShards)

\* these, for the shards from l on that succeeded, one after the other
RECURSIVE ExpectedFrom(_)
ExpectedFrom(l) ==
    IF l >= nShards THEN <<>>
    ELSE (IF l \in SucceededShards THEN ExpectedOf(l) ELSE <<>>) \o ExpectedFrom(l + 1)

Count(x, seq) == Cardinality({p \in 1..Len(seq) : seq[p] = x})

SameMultiset(s, t) ==
    /\ Len(s) = Len(t)
    /\ \A p \in 1..Len(s) : Count(s[p], s) = Count(s[p], t)

\* C26: the result of a bulk operation that has returned holds, as a
\* multiset, what the shards that succeeded bring and nothing of a shard
\* that failed; MultiSet and MultiDel return a non-nil error exactly when a
\* shard failed.
C26_ResultIsSuccessfulParts ==
    cpc = "done" /\ cop \in BulkOps /\ kIn # <<>> =>
        /\ SameMultiset(acc, ExpectedFrom(0))
        /\ cop # "MultiGet" => (errVar.typ # "nil" <=> FailedShards # {})

\* C26 witness: MultiSet of pairs with the keys a, b, c on two shards when
\* shard 0 fails and shard 1 succeeds returns the key b and an error.
C26_Witness ==
    /\ cop = "MultiSet"
    /\ cpc = "done"
    /\ nShards = 2
    /\ kIn = <<"a", "b", "c">>
    /\ FailedShards = {0}
    /\ acc = <<"b">>
    /\ errVar.typ # "nil"

CommandOf(m) ==
    CASE m = "Get" -> <<"g", "e", "t">>
      [] m = "MultiGet" -> <<"m", "u", "l", "t", "i", "_", "g", "e", "t">>
      [] m = "MultiDel" -> <<"m", "u", "l", "t", "i", "_", "d", "e", "l">>
      [] m = "MultiHGet" -> <<"m", "u", "l", "t", "i", "_", "h", "g", "e", "t">>
      [] m = "MultiHDel" -> <<"m", "u", "l", "t", "i", "_", "h", "d", "e", "l">>
      [] m = "MultiZGet" -> <<"m", "u", "l", "t", "i", "_", "z", "g", "e", "t">>
      [] m = "MultiZDel" -> <<"m", "u", "l", "t", "i", "_", "z", "d", "e", "l">>
      [] m = "ZScan" -> <<"z", "s", "c", "a", "n">>
      [] m = "ZRScan" -> <<"z", "r", "s", "c", "a", "n">>

\* the arguments of the call of m, in the order of its parameters
ArgumentsOf(m) ==
    IF m \in {"MultiGet", "MultiDel"} THEN StrArgs(tList)
    ELSE IF m \in ListMethods THEN <<StrArg(TKey)>> \o StrArgs(tList)
    ELSE IF m = "Get" THEN <<StrArg(TKey)>>
    ELSE <<StrArg(TKey)>> \o ScanRange

\* C28: what a typed method gives to Do is the command name of its own
\* operation followed by its arguments in order.
C28_OwnCommandSent ==
    tpc = "done" /\ tSent # <<>> =>
        /\ Head(tSent) = StrArg(CommandOf(tMethod))
        /\ Tail(tSent) = ArgumentsOf(tMethod)

====
